---------------------------- MODULE Spec2Model ----------------------------
(* image_classification/training.py: optimizer construction, learning-rate *)
(* policies, the train / validate epoch loops and train_loop.              *)
(*                                                                         *)
(* One process (one worker) is modelled; the distributed runtime is the    *)
(* pair cfg.dist (torch.distributed.is_initialized()) and cfg.rank         *)
(* (torch.distributed.get_rank()).  Workers share no state in this file,   *)
(* so the behaviours of a world are the behaviours of its ranks.           *)
(*                                                                         *)
(* Library calls (forward, backward, optimizer.step, save_checkpoint, ...) *)
(* are modelled by their documented effect and are assumed to return.      *)
EXTENDS Integers, Sequences, FiniteSets

VARIABLES
    pc,            \* position of the process
    err,           \* "none" or the name of the exception that ended the run
    cfg,           \* arguments of train_loop (fixed during a run)
    epoch,         \* train_loop: loop variable
    i,             \* train / validate: batch index of enumerate()
    grad,          \* param.grad of every parameter: contributing batches and divisor
    applied,       \* gradient used by the latest optimizer.step() of this train() call
    upd_after,     \* batch indices of this train() call followed by an optimizer update
    n_backward,    \* backward passes run in this train() call
    stepped,       \* batches the step function ran on in the current train()/validate() call
    loop_exit,     \* how the latest batch loop ended: "none", "break", "exhausted"
    prec1,         \* train_loop: prec1
    best_prec1,    \* train_loop: best_prec1
    ckpts,         \* save_checkpoint calls, in order
    phases,        \* phases executed: <<"train", e>>, <<"validate", e>>
    plots,         \* plot_bin_hist calls
    logger,        \* the metric logger's state (unused when cfg.logger is FALSE)
    lrcfg,         \* arguments of the lr_*_policy that built lr_scheduler
    lr_call,       \* <<iteration, epoch>> of the latest lr_scheduler call, or <<>>
    param_groups,  \* optimizer.param_groups
    opt_in         \* arguments of get_optimizer

vars == <<pc, err, cfg, epoch, i, grad, applied, upd_after, n_backward, stepped,
          loop_exit, prec1, best_prec1, ckpts, phases, plots, logger, lrcfg,
          lr_call, param_groups, opt_in>>

loopVars == <<cfg, epoch, i, grad, applied, upd_after, n_backward, stepped,
              loop_exit, prec1, best_prec1, ckpts, phases, plots, logger>>

(***************************************************************************)
(* Bounds                                                                  *)
(***************************************************************************)
MaxNameLen == 2      \* parameter names: at most this many characters
MaxParams == 2       \* get_optimizer: at most this many named parameters
MaxBaseLr == 2       \* base_lr in 1..MaxBaseLr
MaxWarmup == 2       \* warmup_length in 0..MaxWarmup
MaxEpoch == 3        \* lr policies: epoch and epochs arguments in 0..MaxEpoch
MaxIter == 1         \* lr policies: iteration in 0..MaxIter
MaxSteps == 2        \* step policy: at most this many thresholds

(***************************************************************************)
(* Numbers.  A learning rate is kept as the expression the code evaluates: *)
(* a quotient num/den, or the cosine / exponential term of (e, es).        *)
(***************************************************************************)
Rat(n, d) == [kind |-> "rat", num |-> n, den |-> d, e |-> 0, es |-> 0]

RatEq(a, b) ==
    /\ a.kind = "rat" /\ b.kind = "rat"
    /\ a.den # 0 /\ b.den # 0
    /\ a.num * b.den = b.num * a.den

RatMul(a, b) == Rat(a.num * b.num, a.den * b.den)

RECURSIVE RatPow(_, _)
RatPow(a, k) == IF k = 0 THEN Rat(1, 1) ELSE RatMul(RatPow(a, k - 1), a)

ZeroDivisionError == [kind |-> "ZeroDivisionError", num |-> 0, den |-> 0, e |-> 0, es |-> 0]

(***************************************************************************)
(* Strings are sequences of characters, so that Python's substring test    *)
(* `'bn' in n` is computed.                                                *)
(***************************************************************************)
Alphabet == {"b", "n"}

SeqsUpTo(S, n) == UNION {[1..k -> S] : k \in 0..n}

Names == SeqsUpTo(Alphabet, MaxNameLen) \ {<<>>}

BN == <<"b", "n">>

\* Python: sub in s
Contains(sub, s) ==
    \E k \in 1..(Len(s) - Len(sub) + 1) : SubSeq(s, k, k + Len(sub) - 1) = sub

\* [k for k in 1..Len(s) if s[k] in keep]: the positions kept, in order
RECURSIVE FilterIdx(_, _, _)
FilterIdx(s, keep, k) ==
    IF k > Len(s) THEN <<>>
    ELSE (IF s[k] \in keep THEN <<k>> ELSE <<>>) \o FilterIdx(s, keep, k + 1)

(***************************************************************************)
(* get_optimizer.  A parameter is identified by its position in the        *)
(* `parameters` list; a group is [params, weight_decay, lr].               *)
(***************************************************************************)
Group(ps, wd, lr) == [params |-> ps, weight_decay |-> wd, lr |-> lr]

BnNames == {n \in Names : Contains(BN, n)}
RestNames == {n \in Names : ~Contains(BN, n)}

\* torch.optim.SGD(...) of lines 72-75 and 82-87
\* (SGDGroupsMutDup: the second list comprehension without its filter)
SGDGroupsMutDup(parameters, lr, weight_decay, bn_weight_decay) ==
    IF bn_weight_decay
    THEN << Group(FilterIdx(parameters, Names, 1), weight_decay, lr) >>
    ELSE << Group(FilterIdx(parameters, BnNames, 1), 0, lr),
            Group(FilterIdx(parameters, Names, 1), weight_decay, lr) >>
SGDGroups(parameters, lr, weight_decay, bn_weight_decay) ==
    IF bn_weight_decay
    THEN << Group(FilterIdx(parameters, Names, 1), weight_decay, lr) >>
    ELSE << Group(FilterIdx(parameters, BnNames, 1), 0, lr),
            Group(FilterIdx(parameters, RestNames, 1), weight_decay, lr) >>

\* optimizer.state_dict()['param_groups']: the hyperparameters and sizes of the groups
StateDict(groups) ==
    [g \in 1..Len(groups) |->
        [n |-> Len(groups[g].params),
         weight_decay |-> groups[g].weight_decay,
         lr |-> groups[g].lr]]

\* optimizer.load_state_dict(state) accepts a snapshot with the same group shape
StateFits(groups, state) ==
    /\ Len(state) = Len(groups)
    /\ \A g \in 1..Len(groups) : state[g].n = Len(groups[g].params)

\* ... and then replaces each group's hyperparameters by the snapshot's
LoadStateDict(groups, state) ==
    [g \in 1..Len(groups) |->
        Group(groups[g].params, state[g].weight_decay, state[g].lr)]

WeightDecays == {1, 2}
LrInit == Rat(1, 1)

ParamLists == SeqsUpTo(Names, MaxParams) \ {<<>>}

\* snapshots written by an earlier run over the same parameters (line 368)
Snapshots(parameters) ==
    {StateDict(SGDGroups(parameters, LrInit, wd, bn)) :
        wd \in WeightDecays, bn \in BOOLEAN}

NoOptIn == [parameters |-> <<>>, weight_decay |-> 0, bn_weight_decay |-> FALSE,
            state |-> <<>>, has_state |-> FALSE]

GetOptimizer ==
    /\ pc = "get_optimizer"
    /\ LET built == SGDGroups(opt_in.parameters, LrInit, opt_in.weight_decay,
                              opt_in.bn_weight_decay)
       IN  IF ~opt_in.has_state
           THEN /\ param_groups' = built
                /\ pc' = "optimizer"
                /\ err' = err
           ELSE IF StateFits(built, opt_in.state)
           THEN /\ param_groups' = LoadStateDict(built, opt_in.state)
                /\ pc' = "optimizer"
                /\ err' = err
           ELSE /\ param_groups' = built
                /\ pc' = "error"
                /\ err' = "ValueError"
    /\ UNCHANGED <<loopVars, lrcfg, lr_call, opt_in>>

(***************************************************************************)
(* Learning-rate policies.                                                 *)
(***************************************************************************)
DecayFactors == {Rat(1, 2), Rat(1, 10)}

\* lines 121-123: for s in steps: if epoch >= s: lr *= decay_factor
\* (StepDecayMutOnce: the loop left at the first threshold reached)
RECURSIVE StepDecayMutOnce(_, _, _, _, _)
StepDecayMutOnce(lr, steps, k, ep, decay_factor) ==
    IF k > Len(steps) THEN lr
    ELSE IF ep >= steps[k] THEN RatMul(lr, decay_factor)
    ELSE StepDecayMutOnce(lr, steps, k + 1, ep, decay_factor)
RECURSIVE StepDecay(_, _, _, _, _)
StepDecay(lr, steps, k, ep, decay_factor) ==
    IF k > Len(steps) THEN lr
    ELSE StepDecay(IF ep >= steps[k] THEN RatMul(lr, decay_factor) ELSE lr,
                   steps, k + 1, ep, decay_factor)

\* lr_step_policy._lr_fn
LrStepFn(c, iteration, ep) ==
    IF ep < c.warmup_length
    THEN Rat(c.base_lr * (ep + 1), c.warmup_length)
    ELSE StepDecay(Rat(c.base_lr, 1), c.steps, 1, ep, c.decay_factor)

\* lr_linear_policy._lr_fn: base_lr * (1 - e/es)
LrLinearFn(c, iteration, ep) ==
    IF ep < c.warmup_length
    THEN Rat(c.base_lr * (ep + 1), c.warmup_length)
    ELSE LET e == ep - c.warmup_length
             es == c.epochs - c.warmup_length
         IN  IF es = 0 THEN ZeroDivisionError
             ELSE Rat(c.base_lr * (es - e), es)

\* lr_cosine_policy._lr_fn: 0.5 * (1 + cos(pi * e / es)) * base_lr
\* (LrCosineFnMutNoPlusOne: warmup with epoch in place of epoch + 1)
LrCosineFnMutNoPlusOne(c, iteration, ep) ==
    IF ep < c.warmup_length
    THEN Rat(c.base_lr * ep, c.warmup_length)
    ELSE [kind |-> "cos", num |-> c.base_lr, den |-> 1,
          e |-> ep - c.warmup_length, es |-> c.epochs - c.warmup_length]
LrCosineFn(c, iteration, ep) ==
    IF ep < c.warmup_length
    THEN Rat(c.base_lr * (ep + 1), c.warmup_length)
    ELSE LET e == ep - c.warmup_length
             es == c.epochs - c.warmup_length
         IN  IF es = 0 THEN ZeroDivisionError
             ELSE [kind |-> "cos", num |-> c.base_lr, den |-> 1, e |-> e, es |-> es]

\* lr_exponential_policy._lr_fn: base_lr * epoch_decay ** e, with
\* epoch_decay = 2 ** (log2(final_multiplier) / es) a numpy value (no exception)
LrExponentialFn(c, iteration, ep) ==
    IF ep < c.warmup_length
    THEN Rat(c.base_lr * (ep + 1), c.warmup_length)
    ELSE [kind |-> "exp", num |-> c.base_lr, den |-> 1,
          e |-> ep - c.warmup_length, es |-> c.epochs - c.warmup_length]

Policies == {"step", "linear", "cosine", "exponential"}

\* the lr_fn handed to lr_policy by each lr_*_policy
LrFn(c, iteration, ep) ==
    CASE c.policy = "step" -> LrStepFn(c, iteration, ep)
      [] c.policy = "linear" -> LrLinearFn(c, iteration, ep)
      [] c.policy = "cosine" -> LrCosineFn(c, iteration, ep)
      [] c.policy = "exponential" -> LrExponentialFn(c, iteration, ep)

LrCfg(p, b, w, st, d, eps, lg) ==
    [policy |-> p, base_lr |-> b, warmup_length |-> w, steps |-> st,
     decay_factor |-> d, epochs |-> eps, logger |-> lg]

\* the arguments the four policies are built from
IsLrCfg(c) ==
    \E b \in 1..MaxBaseLr, w \in 0..MaxWarmup, lg \in BOOLEAN :
        \/ \E st \in SeqsUpTo(0..MaxEpoch, MaxSteps), d \in DecayFactors :
              c = LrCfg("step", b, w, st, d, 0, lg)
        \/ \E p \in Policies \ {"step"}, eps \in 0..MaxEpoch :
              c = LrCfg(p, b, w, <<>>, Rat(1, 1), eps, lg)

\* the logger: metric groups registered, metrics logged, end() calls
NoLogger == [registered |-> {}, logged |-> {}, wrapped |-> {}, ended |-> 0]
Register(lg, name) == [lg EXCEPT !.registered = @ \cup {name}]
LogMetric(lg, name) == [lg EXCEPT !.logged = @ \cup {name}]
Wrap(lg, name) == [lg EXCEPT !.wrapped = @ \cup {name}]

\* lr_policy: the logger of the policy registers 'lr' when the policy is built
LrPolicyLogger(c) == IF c.logger THEN Register(NoLogger, "lr") ELSE NoLogger

\* lr_policy._alr: param_group['lr'] = lr for every group
SetLr(groups, lr) == [g \in 1..Len(groups) |-> [groups[g] EXCEPT !.lr = lr]]

\* one call lr_scheduler(optimizer, iteration, ep): the optimizer groups and the
\* logger after it; an exception of lr_fn propagates before anything is written
Alr(groups, lg, iteration, ep) ==
    LET lr == LrFn(lrcfg, iteration, ep)
    IN  IF lr = ZeroDivisionError
        THEN [raised |-> TRUE, groups |-> groups, logger |-> lg]
        ELSE [raised |-> FALSE,
              groups |-> SetLr(groups, lr),
              logger |-> IF lrcfg.logger THEN LogMetric(lg, "lr") ELSE lg]

\* the optimizer the schedulers and the loops act on
DefaultParams == << <<"b", "n">>, <<"n">> >>
DefaultGroups == SGDGroups(DefaultParams, LrInit, 1, FALSE)

(***************************************************************************)
(* train / validate / train_loop                                           *)
(***************************************************************************)
MaxMult == 3         \* batch_size_multiplier in 1..MaxMult
MaxProf == 2         \* prof in -1..MaxProf
MaxBatches == 4      \* a loader yields at most this many batches
MaxEpochs == 2       \* train_loop: epochs in 0..MaxEpochs

StartEpochs == {0, 1}    \* train_loop: start_epoch
BestInits == {0, 1}      \* train_loop: best_prec1 argument
Precs == {0, 1, 2}       \* validation top-1 returned by validate()
Ranks == {0, 1}          \* get_rank()

Cfgs ==
    [batch_size_multiplier : 1..MaxMult,
     prof : -1..MaxProf,
     fp16 : BOOLEAN,
     use_amp : BOOLEAN,
     skip_training : BOOLEAN,
     skip_validation : BOOLEAN,
     save_checkpoints : BOOLEAN,
     logger : BOOLEAN,            \* FALSE: logger is None
     dist : BOOLEAN,
     rank : Ranks,
     start_epoch : StartEpochs,
     epochs : 0..MaxEpochs,
     best_prec1 : BestInits]

NoCfg == [batch_size_multiplier |-> 1, prof |-> -1, fp16 |-> FALSE, use_amp |-> FALSE,
          skip_training |-> FALSE, skip_validation |-> FALSE,
          save_checkpoints |-> FALSE, logger |-> FALSE, dist |-> FALSE, rank |-> 0,
          start_epoch |-> 0, epochs |-> 0, best_prec1 |-> 0]

\* the lr_scheduler handed to train_loop: a step policy sharing the loop's logger
LoopLrCfg(lg) == LrCfg("step", 1, 1, <<1, 1>>, Rat(1, 2), 0, lg)

\* should_backup_checkpoint(epoch): the caller's predicate
should_backup_checkpoint(ep) == ep % 2 = 1

\* not torch.distributed.is_initialized() or torch.distributed.get_rank() == 0
Coordinator == ~cfg.dist \/ cfg.rank = 0

ZeroGrad == [batches |-> {}, div |-> 1]
NoStep == [batches |-> {}, div |-> 0]

\* lines 185-192: fp16 runs optimizer.backward(loss), otherwise use_amp runs
\* nothing (`pass`), otherwise loss.backward() is run
RunsBackward == cfg.fp16 \/ ~cfg.use_amp

\* line 242
OptimizerStep(idx) == ((idx + 1) % cfg.batch_size_multiplier) = 0

\* line 239 and line 310 (TrainBreaksMutGt: train with validate's comparison)
TrainBreaksMutGt(idx) == cfg.prof > 0 /\ idx > cfg.prof
TrainBreaks(idx) == cfg.prof > 0 /\ idx >= cfg.prof
ValidateBreaks(idx) == cfg.prof > 0 /\ idx > cfg.prof

\* line 227: optimizer.zero_grad() at the start of train()
TrainStartGrad == ZeroGrad

\* line 355: the checkpoint is written only when training was not skipped
\* (SavesWhenMutAlways: the guard dropped)
SavesWhenMutAlways == TRUE
SavesWhen == ~cfg.skip_training

\* lines 356-357 (NewBestMutLast: the latest value instead of the maximum)
IsBest(p, best) == p > best
NewBestMutLast(p, best) == p
NewBest(p, best) == IF p > best THEN p ELSE best

RegisterIf(lg, cond, name) == IF cond /\ cfg.logger THEN Register(lg, name) ELSE lg
LogIf(lg, name) == IF cfg.logger THEN LogMetric(lg, name) ELSE lg
WrapIf(lg, name) == IF cfg.logger THEN Wrap(lg, name) ELSE lg

\* the locals of train() and validate() are gone once the call has returned and
\* train_loop has moved on
LocalsGone ==
    /\ i' = 0
    /\ stepped' = {}
    /\ n_backward' = 0
    /\ upd_after' = {}
    /\ applied' = NoStep
    /\ loop_exit' = "none"
    /\ lr_call' = <<>>

\* line 346: for epoch in epoch_iter (the range is not exhausted)
ForEpoch ==
    /\ pc = "epoch_iter"
    /\ epoch < cfg.epochs
    /\ pc' = "train_phase"
    /\ UNCHANGED <<err, loopVars, lrcfg, lr_call, param_groups, opt_in>>

\* line 346: the range is exhausted
EpochsExhausted ==
    /\ pc = "epoch_iter"
    /\ epoch >= cfg.epochs
    /\ pc' = "after_loop"
    /\ UNCHANGED <<err, loopVars, lrcfg, lr_call, param_groups, opt_in>>

\* line 348: skip_training
SkipTrain ==
    /\ pc = "train_phase"
    /\ cfg.skip_training
    /\ pc' = "validate_phase"
    /\ UNCHANGED <<err, loopVars, lrcfg, lr_call, param_groups, opt_in>>

\* line 349 and train(), lines 213-231
TrainBegin ==
    /\ pc = "train_phase"
    /\ ~cfg.skip_training
    /\ logger' = WrapIf(RegisterIf(logger, epoch = cfg.start_epoch, "train"), "train")
    /\ grad' = TrainStartGrad
    /\ i' = 0
    /\ stepped' = {}
    /\ n_backward' = 0
    /\ upd_after' = {}
    /\ applied' = NoStep
    /\ loop_exit' = "none"
    /\ phases' = phases \cup {<<"train", epoch>>}
    /\ pc' = "train_iter"
    /\ UNCHANGED <<err, cfg, epoch, prec1, best_prec1, ckpts, plots, lrcfg, lr_call,
                   param_groups, opt_in>>

\* train(), lines 233-256: one batch, no break; _step of lines 172-206
TrainBatch ==
    /\ pc = "train_iter"
    /\ i < MaxBatches
    /\ LET a == Alr(param_groups, logger, i, epoch)
           g == IF RunsBackward
                THEN [grad EXCEPT !.batches = @ \cup {<<epoch, i>>}]
                ELSE grad
       IN  /\ ~a.raised
           /\ ~TrainBreaks(i)
           /\ lr_call' = <<i, epoch>>
           /\ param_groups' = a.groups
           /\ logger' = LogIf(a.logger, "train")
           /\ n_backward' = IF RunsBackward THEN n_backward + 1 ELSE n_backward
           /\ IF OptimizerStep(i)
              THEN /\ applied' = [g EXCEPT !.div = @ * cfg.batch_size_multiplier]
                   /\ grad' = ZeroGrad
                   /\ upd_after' = upd_after \cup {i}
              ELSE /\ grad' = g
                   /\ UNCHANGED <<applied, upd_after>>
    /\ stepped' = stepped \cup {i}
    /\ i' = i + 1
    /\ UNCHANGED <<pc, err, cfg, epoch, loop_exit, prec1, best_prec1, ckpts, phases,
                   plots, lrcfg, opt_in>>

\* train(), lines 235-240: the batch at which the profiling limit breaks the loop
TrainBreak ==
    /\ pc = "train_iter"
    /\ i < MaxBatches
    /\ LET a == Alr(param_groups, logger, i, epoch)
       IN  /\ ~a.raised
           /\ TrainBreaks(i)
           /\ lr_call' = <<i, epoch>>
           /\ param_groups' = a.groups
           /\ logger' = a.logger
    /\ loop_exit' = "break"
    /\ pc' = "validate_phase"
    /\ UNCHANGED <<err, cfg, epoch, i, grad, applied, upd_after, n_backward, stepped,
                   prec1, best_prec1, ckpts, phases, plots, lrcfg, opt_in>>

\* train(), line 233: the loader is exhausted
TrainExhausted ==
    /\ pc = "train_iter"
    /\ loop_exit' = "exhausted"
    /\ pc' = "validate_phase"
    /\ UNCHANGED <<err, cfg, epoch, i, grad, applied, upd_after, n_backward, stepped,
                   prec1, best_prec1, ckpts, phases, plots, logger, lrcfg, lr_call,
                   param_groups, opt_in>>

\* line 351: skip_validation
SkipValidate ==
    /\ pc = "validate_phase"
    /\ cfg.skip_validation
    /\ LocalsGone
    /\ pc' = "checkpoint"
    /\ UNCHANGED <<err, cfg, epoch, grad, prec1, best_prec1, ckpts, phases, plots,
                   logger, lrcfg, param_groups, opt_in>>

\* line 352 and validate(), lines 285-304
ValidateBegin ==
    /\ pc = "validate_phase"
    /\ ~cfg.skip_validation
    /\ logger' = WrapIf(RegisterIf(logger, epoch = cfg.start_epoch, "val"), "val")
    /\ LocalsGone
    /\ phases' = phases \cup {<<"validate", epoch>>}
    /\ pc' = "val_iter"
    /\ UNCHANGED <<err, cfg, epoch, grad, prec1, best_prec1, ckpts, plots, lrcfg,
                   param_groups, opt_in>>

\* validate(), lines 306-327: one batch, no break (forward only, under no_grad)
ValidateBatch ==
    /\ pc = "val_iter"
    /\ i < MaxBatches
    /\ ~ValidateBreaks(i)
    /\ logger' = LogIf(logger, "val")
    /\ stepped' = stepped \cup {i}
    /\ i' = i + 1
    /\ UNCHANGED <<pc, err, cfg, epoch, grad, applied, upd_after, n_backward, loop_exit,
                   prec1, best_prec1, ckpts, phases, plots, lrcfg, lr_call,
                   param_groups, opt_in>>

\* validate(), lines 309-311 and 329: the profiling limit breaks the loop
ValidateBreak ==
    /\ pc = "val_iter"
    /\ i < MaxBatches
    /\ ValidateBreaks(i)
    /\ loop_exit' = "break"
    /\ prec1' \in Precs
    /\ pc' = "checkpoint"
    /\ UNCHANGED <<err, cfg, epoch, i, grad, applied, upd_after, n_backward, stepped,
                   best_prec1, ckpts, phases, plots, logger, lrcfg, lr_call,
                   param_groups, opt_in>>

\* validate(), lines 306 and 329: the loader is exhausted
ValidateExhausted ==
    /\ pc = "val_iter"
    /\ loop_exit' = "exhausted"
    /\ prec1' \in Precs
    /\ pc' = "checkpoint"
    /\ UNCHANGED <<err, cfg, epoch, i, grad, applied, upd_after, n_backward, stepped,
                   best_prec1, ckpts, phases, plots, logger, lrcfg, lr_call,
                   param_groups, opt_in>>

\* lines 354-369
SaveCheckpoint ==
    /\ pc = "checkpoint"
    /\ cfg.save_checkpoints /\ Coordinator
    /\ SavesWhen
    /\ best_prec1' = NewBest(prec1, best_prec1)
    /\ ckpts' = Append(ckpts,
                       [epoch |-> epoch + 1,
                        best_prec1 |-> NewBest(prec1, best_prec1),
                        is_best |-> IsBest(prec1, best_prec1),
                        prec1 |-> prec1,
                        prior_best |-> best_prec1,
                        backup |-> should_backup_checkpoint(epoch)])
    /\ LocalsGone
    /\ pc' = "logger_end"
    /\ UNCHANGED <<err, cfg, epoch, grad, prec1, phases, plots, logger, lrcfg,
                   param_groups, opt_in>>

\* lines 354-355: nothing is saved
NoCheckpoint ==
    /\ pc = "checkpoint"
    /\ ~(cfg.save_checkpoints /\ Coordinator /\ SavesWhen)
    /\ LocalsGone
    /\ pc' = "logger_end"
    /\ UNCHANGED <<err, cfg, epoch, grad, prec1, best_prec1, ckpts, phases, plots,
                   logger, lrcfg, param_groups, opt_in>>

\* lines 371-372
LoggerEnd ==
    /\ pc = "logger_end"
    /\ Coordinator
    /\ cfg.logger
    /\ logger' = [logger EXCEPT !.ended = @ + 1]
    /\ epoch' = epoch + 1
    /\ pc' = "epoch_iter"
    /\ UNCHANGED <<err, cfg, i, grad, applied, upd_after, n_backward, stepped,
                   loop_exit, prec1, best_prec1, ckpts, phases, plots, lrcfg, lr_call,
                   param_groups, opt_in>>

\* line 372 with logger = None: None has no attribute 'end'
LoggerEndOnNone ==
    /\ pc = "logger_end"
    /\ Coordinator
    /\ ~cfg.logger
    /\ pc' = "error"
    /\ err' = "AttributeError"
    /\ UNCHANGED <<loopVars, lrcfg, lr_call, param_groups, opt_in>>

\* line 371: a worker that is not the coordinator
NotCoordinator ==
    /\ pc = "logger_end"
    /\ ~Coordinator
    /\ epoch' = epoch + 1
    /\ pc' = "epoch_iter"
    /\ UNCHANGED <<err, cfg, i, grad, applied, upd_after, n_backward, stepped,
                   loop_exit, prec1, best_prec1, ckpts, phases, plots, logger, lrcfg,
                   lr_call, param_groups, opt_in>>

\* lines 374-377
PlotBinHist ==
    /\ pc = "after_loop"
    /\ cfg.skip_training
    /\ plots' = plots + 1
    /\ pc' = "done"
    /\ UNCHANGED <<err, cfg, epoch, i, grad, applied, upd_after, n_backward, stepped,
                   loop_exit, prec1, best_prec1, ckpts, phases, logger, lrcfg, lr_call,
                   param_groups, opt_in>>

\* line 374: train_loop returns
Return ==
    /\ pc = "after_loop"
    /\ ~cfg.skip_training
    /\ pc' = "done"
    /\ UNCHANGED <<err, loopVars, lrcfg, lr_call, param_groups, opt_in>>

\* the loop's variables at the call of train_loop: lines 337-341
LoopStart(c) ==
    /\ cfg = c
    /\ epoch = c.start_epoch
    /\ i = 0
    /\ grad = ZeroGrad
    /\ applied = NoStep
    /\ upd_after = {}
    /\ n_backward = 0
    /\ stepped = {}
    /\ loop_exit = "none"
    /\ prec1 = -1
    /\ best_prec1 = c.best_prec1
    /\ ckpts = <<>>
    /\ phases = {}
    /\ plots = 0

\* train_loop is called: lines 341-345
Init ==
    /\ \E c \in Cfgs : (c.dist \/ c.rank = 0) /\ LoopStart(c)
    /\ pc = "epoch_iter"
    /\ err = "none"
    /\ lrcfg = LoopLrCfg(cfg.logger)
    /\ logger = WrapIf(LrPolicyLogger(lrcfg), "epoch")
    /\ lr_call = <<>>
    /\ param_groups = DefaultGroups
    /\ opt_in = NoOptIn

Next ==
    \/ ForEpoch \/ EpochsExhausted
    \/ SkipTrain \/ TrainBegin \/ TrainBatch \/ TrainBreak \/ TrainExhausted
    \/ SkipValidate \/ ValidateBegin \/ ValidateBatch \/ ValidateBreak
    \/ ValidateExhausted
    \/ SaveCheckpoint \/ NoCheckpoint
    \/ LoggerEnd \/ LoggerEndOnNone \/ NotCoordinator
    \/ PlotBinHist \/ Return

Spec == Init /\ [][Next]_vars

(***************************************************************************)
(* The learning-rate policies on their own: a scheduler built by one of    *)
(* the four lr_*_policy functions is called with any (iteration, epoch).   *)
(***************************************************************************)
\* lr_policy._alr returns
AlrCall ==
    /\ pc = "lr_policy"
    /\ \E iteration \in 0..MaxIter, ep \in 0..MaxEpoch :
        LET a == Alr(param_groups, logger, iteration, ep)
        IN  /\ ~a.raised
            /\ lr_call' = <<iteration, ep>>
            /\ param_groups' = a.groups
            /\ logger' = a.logger
    /\ UNCHANGED <<pc, err, cfg, epoch, i, grad, applied, upd_after, n_backward,
                   stepped, loop_exit, prec1, best_prec1, ckpts, phases, plots, lrcfg,
                   opt_in>>

\* lr_fn raises inside lr_policy._alr (a division by es = 0)
AlrRaises ==
    /\ pc = "lr_policy"
    /\ \E iteration \in 0..MaxIter, ep \in 0..MaxEpoch :
        /\ Alr(param_groups, logger, iteration, ep).raised
        /\ lr_call' = <<iteration, ep>>
    /\ pc' = "error"
    /\ err' = "ZeroDivisionError"
    /\ UNCHANGED <<loopVars, lrcfg, param_groups, opt_in>>

InitLr ==
    /\ LoopStart(NoCfg)
    /\ pc = "lr_policy"
    /\ err = "none"
    /\ IsLrCfg(lrcfg)
    /\ logger = LrPolicyLogger(lrcfg)
    /\ lr_call = <<>>
    /\ param_groups = DefaultGroups
    /\ opt_in = NoOptIn

NextLr == AlrCall \/ AlrRaises

SpecLr == InitLr /\ [][NextLr]_vars

(***************************************************************************)
(* get_optimizer on its own.                                               *)
(***************************************************************************)
IsOptIn(o) ==
    \E ps \in ParamLists, wd \in WeightDecays, bn \in BOOLEAN :
        \/ o = [parameters |-> ps, weight_decay |-> wd, bn_weight_decay |-> bn,
                state |-> <<>>, has_state |-> FALSE]
        \/ \E sn \in Snapshots(ps) :
              o = [parameters |-> ps, weight_decay |-> wd, bn_weight_decay |-> bn,
                   state |-> sn, has_state |-> TRUE]

InitOpt ==
    /\ LoopStart(NoCfg)
    /\ pc = "get_optimizer"
    /\ err = "none"
    /\ lrcfg = LoopLrCfg(FALSE)
    /\ logger = NoLogger
    /\ lr_call = <<>>
    /\ param_groups = <<>>
    /\ IsOptIn(opt_in)

NextOpt == GetOptimizer

SpecOpt == InitOpt /\ [][NextOpt]_vars

(***************************************************************************)
(* Properties                                                              *)
(***************************************************************************)
\* a train() call is running or has just returned
InTrain == pc = "train_iter" \/ (pc = "validate_phase" /\ ~cfg.skip_training)

TrainReturned == pc = "validate_phase" /\ loop_exit # "none"
ValidateReturned == pc = "checkpoint" /\ loop_exit # "none"

\* batches the loader has yielded to the loop that just ended
Yielded == IF loop_exit = "break" THEN i + 1 ELSE i

Last(S) == CHOOSE x \in S : \A y \in S : y <= x

UpdateIndices(n) == {j \in 0..(n - 1) : (j + 1) % cfg.batch_size_multiplier = 0}

\* C1: in a train() call without profiling limit, after the first i batches the
\* optimizer update (scaled by 1/m) has been applied exactly after the batch
\* indices j with (j+1) mod m = 0, that is floor(i/m) times, and backward has
\* been run on every one of the i batches.
C1_UpdateOncePerMultiplier ==
    (InTrain /\ cfg.prof <= 0) =>
        /\ stepped = 0..(i - 1)
        /\ upd_after = UpdateIndices(i)
        /\ Cardinality(upd_after) = i \div cfg.batch_size_multiplier
        /\ (upd_after # {} => applied.div = cfg.batch_size_multiplier)
        /\ n_backward = i

\* The update schedule of C1 without its backward clause.
TrainUpdateSchedule ==
    InTrain =>
        /\ stepped = 0..(i - 1)
        /\ upd_after = UpdateIndices(i)
        /\ Cardinality(upd_after) = i \div cfg.batch_size_multiplier
        /\ (upd_after # {} => applied.div = cfg.batch_size_multiplier)
        /\ n_backward = IF RunsBackward THEN i ELSE 0

\* C2: with a profiling limit prof = p > 0 and a loader holding more than p
\* batches, train() has run its step function on exactly the batches 0..p-1 when
\* it returns, and validate() on exactly the batches 0..p.
C2_ProfilingAsymmetry ==
    cfg.prof > 0 =>
        /\ (TrainReturned /\ Yielded > cfg.prof) => stepped = 0..(cfg.prof - 1)
        /\ (ValidateReturned /\ Yielded > cfg.prof) => stepped = 0..cfg.prof

C2_Witness ==
    /\ ValidateReturned
    /\ loop_exit = "break"
    /\ cfg.prof = MaxProf
    /\ stepped = 0..MaxProf
    /\ <<"train", epoch>> \in phases
    /\ grad.batches # {}

\* C3: every checkpoint saved has is_best iff that epoch's prec1 strictly exceeds
\* the best value held before the epoch, carries max(prec1, previous best) as
\* best_prec1, and the best_prec1 of successive checkpoints never decreases and
\* is never below the initial best_prec1.
C3_BestIsMonotone ==
    \A k \in 1..Len(ckpts) :
        /\ ckpts[k].is_best = (ckpts[k].prec1 > ckpts[k].prior_best)
        /\ ckpts[k].best_prec1 >= ckpts[k].prec1
        /\ ckpts[k].best_prec1 >= ckpts[k].prior_best
        /\ ckpts[k].best_prec1 \in {ckpts[k].prec1, ckpts[k].prior_best}
        /\ ckpts[k].prior_best = IF k = 1 THEN cfg.best_prec1
                                 ELSE ckpts[k - 1].best_prec1
        /\ ckpts[k].best_prec1 >= cfg.best_prec1
        /\ best_prec1 >= ckpts[k].best_prec1

C3_Witness ==
    /\ Len(ckpts) = 2
    /\ ckpts[1].is_best
    /\ ~ckpts[2].is_best
    /\ ckpts[2].prec1 < ckpts[2].best_prec1
    /\ ckpts[1].best_prec1 > cfg.best_prec1

Trained == {e \in 0..MaxEpochs : <<"train", e>> \in phases}
Validated == {e \in 0..MaxEpochs : <<"validate", e>> \in phases}

\* C4 as stated: with skip_training no train phase, no validation phase and no
\* checkpoint save is executed for any epoch, and exactly one plot_bin_hist pass
\* has run when train_loop returns.
C4_SkipTrainingBypassesEpochs ==
    cfg.skip_training =>
        /\ phases = {}
        /\ ckpts = <<>>
        /\ plots = IF pc = "done" THEN 1 ELSE 0

\* C4 amended: with skip_training no train phase and no checkpoint save is
\* executed for any epoch, the validation phase still runs for every epoch the
\* loop goes through unless skip_validation is set, and plot_bin_hist runs once,
\* after the epoch loop: it has run exactly once when train_loop returns and
\* not at all before.
C4_SkipTrainingSkipsTrainAndSave ==
    cfg.skip_training =>
        /\ Trained = {}
        /\ ckpts = <<>>
        /\ Validated \subseteq cfg.start_epoch..(cfg.epochs - 1)
        /\ cfg.skip_validation => Validated = {}
        /\ (~cfg.skip_validation /\ pc \in {"after_loop", "done"}) =>
                Validated = cfg.start_epoch..(cfg.epochs - 1)
        /\ plots = IF pc = "done" THEN 1 ELSE 0

C4_Witness ==
    /\ cfg.skip_training
    /\ cfg.save_checkpoints /\ Coordinator
    /\ pc = "done"
    /\ plots = 1
    /\ Validated = {0, 1}

\* C5: with logger = None no call is made on the logger and no error is raised.
C5_NullLoggerTolerated ==
    ~cfg.logger => (err = "none" /\ pc # "error" /\ logger = NoLogger)

SavedEpochs == [k \in 1..Len(ckpts) |-> ckpts[k].epoch - 1]

\* C6: with save_checkpoints and without skip_training, only the coordinator
\* saves; it saves each epoch once, in order, after the epoch's train and
\* validation phases, and when its train_loop has ended every epoch of
\* [start_epoch, epochs) has been saved.
C6_CheckpointPerEpochByCoordinator ==
    (cfg.save_checkpoints /\ ~cfg.skip_training) =>
        /\ ~Coordinator => ckpts = <<>>
        /\ \A k \in 1..Len(ckpts) :
              /\ SavedEpochs[k] = cfg.start_epoch + k - 1
              /\ SavedEpochs[k] \in Trained
              /\ ~cfg.skip_validation => SavedEpochs[k] \in Validated
        /\ (Coordinator /\ pc \in {"done", "error"}) =>
              {SavedEpochs[k] : k \in 1..Len(ckpts)}
                  = cfg.start_epoch..(cfg.epochs - 1)

\* The part of C6 that holds whatever the logger is: who saves, and in which order.
CheckpointOnlyByCoordinator ==
    (cfg.save_checkpoints /\ ~cfg.skip_training) =>
        /\ ~Coordinator => ckpts = <<>>
        /\ \A k \in 1..Len(ckpts) :
              /\ SavedEpochs[k] = cfg.start_epoch + k - 1
              /\ SavedEpochs[k] \in Trained
              /\ ~cfg.skip_validation => SavedEpochs[k] \in Validated
        /\ (Coordinator /\ pc = "done") =>
              {SavedEpochs[k] : k \in 1..Len(ckpts)}
                  = cfg.start_epoch..(cfg.epochs - 1)

WarmupLr(c, ep) == Rat(c.base_lr * (ep + 1), c.warmup_length)

\* C7: whatever the policy, the iteration and the curve parameters, a scheduler
\* called for an epoch e < warmup_length writes base_lr*(e+1)/warmup_length into
\* every parameter group.
C7_WarmupIsLinear ==
    (pc = "lr_policy" /\ lr_call # <<>> /\ lr_call[2] < lrcfg.warmup_length) =>
        \A g \in 1..Len(param_groups) :
            RatEq(param_groups[g].lr, WarmupLr(lrcfg, lr_call[2]))

C7_Witness ==
    /\ pc = "lr_policy"
    /\ lrcfg.policy = "cosine"
    /\ lrcfg.warmup_length = 2
    /\ lr_call = <<1, 1>>
    /\ RatEq(param_groups[2].lr, Rat(lrcfg.base_lr, 1))

Reorderings(sq) ==
    {[k \in 1..Len(sq) |-> sq[f[k]]] :
        f \in {h \in [1..Len(sq) -> 1..Len(sq)] :
                 \A a, b \in 1..Len(sq) : h[a] = h[b] => a = b}}

StepsReached(c, ep) == Cardinality({k \in 1..Len(c.steps) : c.steps[k] <= ep})

\* C8: the step policy called for an epoch e >= warmup_length writes
\* base_lr * decay_factor^k, k the number of entries of steps that are <= e, and
\* the value is the same for every order of the entries of steps.
C8_StepDecayIsCumulative ==
    (pc = "lr_policy" /\ lr_call # <<>> /\ lrcfg.policy = "step"
        /\ lr_call[2] >= lrcfg.warmup_length) =>
        /\ \A g \in 1..Len(param_groups) :
              RatEq(param_groups[g].lr,
                    RatMul(Rat(lrcfg.base_lr, 1),
                           RatPow(lrcfg.decay_factor,
                                  StepsReached(lrcfg, lr_call[2]))))
        /\ \A q \in Reorderings(lrcfg.steps) :
              RatEq(LrStepFn([lrcfg EXCEPT !.steps = q], lr_call[1], lr_call[2]),
                    param_groups[1].lr)

C8_Witness ==
    /\ pc = "lr_policy"
    /\ lrcfg.policy = "step"
    /\ lrcfg.steps = <<2, 1>>
    /\ lrcfg.warmup_length = 1
    /\ lr_call = <<0, 2>>
    /\ RatEq(param_groups[1].lr, RatMul(Rat(lrcfg.base_lr, 1), RatPow(lrcfg.decay_factor, 2)))

Range(sq) == {sq[k] : k \in 1..Len(sq)}

\* every parameter is in exactly one group, at exactly one position
Partitioned(groups, parameters) ==
    /\ \A k \in 1..Len(parameters) :
          Cardinality({<<g, x>> \in (1..Len(groups)) \X (1..Len(parameters)) :
                          x <= Len(groups[g].params) /\ groups[g].params[x] = k}) = 1
    /\ \A g \in 1..Len(groups) : Range(groups[g].params) \subseteq 1..Len(parameters)

\* the group layout of C9, without the weight decays
SplitByBn(groups, o) ==
    IF o.bn_weight_decay
    THEN /\ Len(groups) = 1
         /\ Range(groups[1].params) = 1..Len(o.parameters)
    ELSE /\ Len(groups) = 2
         /\ Range(groups[1].params)
               = {k \in 1..Len(o.parameters) : Contains(BN, o.parameters[k])}
         /\ Range(groups[2].params)
               = {k \in 1..Len(o.parameters) : ~Contains(BN, o.parameters[k])}

\* C9 as stated: the optimizer returned by get_optimizer holds every parameter in
\* exactly one group; without bn_weight_decay the group of the names containing
\* "bn" has weight_decay 0 and the other group the configured weight_decay; with
\* bn_weight_decay all parameters have the configured weight_decay.
C9_WeightDecaySplit ==
    pc = "optimizer" =>
        /\ Partitioned(param_groups, opt_in.parameters)
        /\ SplitByBn(param_groups, opt_in)
        /\ IF opt_in.bn_weight_decay
           THEN param_groups[1].weight_decay = opt_in.weight_decay
           ELSE /\ param_groups[1].weight_decay = 0
                /\ param_groups[2].weight_decay = opt_in.weight_decay

\* C9 amended: the partition is as stated for every optimizer returned; the
\* weight decays are as stated when no optimizer state is restored (state is
\* None); a restored state replaces each group's weight_decay by the snapshot's.
C9_WeightDecaySplitUnlessRestored ==
    pc = "optimizer" =>
        /\ Partitioned(param_groups, opt_in.parameters)
        /\ SplitByBn(param_groups, opt_in)
        /\ ~opt_in.has_state =>
              IF opt_in.bn_weight_decay
              THEN param_groups[1].weight_decay = opt_in.weight_decay
              ELSE /\ param_groups[1].weight_decay = 0
                   /\ param_groups[2].weight_decay = opt_in.weight_decay
        /\ opt_in.has_state =>
              \A g \in 1..Len(param_groups) :
                  param_groups[g].weight_decay = opt_in.state[g].weight_decay

C9_Witness ==
    /\ pc = "optimizer"
    /\ ~opt_in.bn_weight_decay
    /\ ~opt_in.has_state
    /\ opt_in.parameters = << <<"n", "b">>, <<"b", "n">> >>
    /\ param_groups[1].params = <<2>> /\ param_groups[1].weight_decay = 0
    /\ param_groups[2].params = <<1>>
    /\ param_groups[2].weight_decay = opt_in.weight_decay

Window(last) ==
    {<<epoch, j>> : j \in (last - cfg.batch_size_multiplier + 1)..last}

\* C10: every optimizer update of a train() call uses the gradients of exactly
\* the batch_size_multiplier consecutive batches of the current epoch that end
\* at the update, the gradients are zero right after an update, and the
\* gradients held between updates come from batches of the current train()
\* call only, later than the last update.
C10_UpdatesUseWholeWindows ==
    InTrain =>
        /\ upd_after # {} =>
              /\ applied.batches = Window(Last(upd_after))
              /\ applied.div = cfg.batch_size_multiplier
        /\ (i - 1) \in upd_after => grad = ZeroGrad
        /\ grad.div = 1
        /\ grad.batches \subseteq
              {<<epoch, j>> : j \in (IF upd_after = {} THEN 0
                                     ELSE Last(upd_after) + 1)..(i - 1)}

\* C10 for the branches of _step that run a backward pass.
UpdatesUseWholeWindowsWhenBackward ==
    RunsBackward => C10_UpdatesUseWholeWindows

====
